---- MODULE Spec2Model ----
(***************************************************************************)
(* Model of the resilient response cascade of backend/agents/llm_client.py *)
(* (ResilientLLMClient.generate, its per-provider CircuitBreakerState and  *)
(* the local sentiment / static fallback tiers).                           *)
(*                                                                         *)
(* Time is the wall clock read by datetime.now(), in seconds.  A coroutine *)
(* runs without interruption between two awaits, so one action is the code *)
(* from one suspension point of generate to the next.                      *)
(***************************************************************************)
EXTENDS Integers, Sequences, FiniteSets, TLC

\* ------------------------------------------------------------------ bounds
\* Seconds that pass in one step of the clock.
TickStep == 15
\* The clock stops advancing here.
MaxTime == 90
\* No new invocation starts once a breaker has counted this many failures.
MaxFailures == 4
\* No new invocation starts once this many calls were admitted to an open
\* breaker since its last recorded result.
MaxTrials == 2
\* Largest number of distress indicators / urgency marks in a prompt.
MaxIndicators == 2
MaxMarks == 2
\* Largest nominal frame rate of a camera, in frames per second.
MaxFps == 1
\* Frames read after the signal buffer is full.
MaxExtraFrames == 2
\* Frames of a session without a face or without a signal.
MaxDropped == 1
\* Epochs of a session whose smoothing is followed.
MaxEpochs == 11
\* Largest number of R-R intervals in a peak train.
MaxIntervals == 4
\* Largest number of rectangles a detection gives.
MaxFaces == 2
\* Frames of a session whose tracking is followed.
MaxTrackFrames == 3
\* Epochs of a session whose display is followed.
MaxLoopEpochs == 2
\* Frames of a session whose regions are followed.
MaxRoiFrames == 3
MaxStreamFrames == 2
MaxInbox == 2

\* ------------------------------------------------------- program constants
failure_threshold == 3
reset_timeout == 30
\* VADER compound thresholds -0.3 and 0.3, in tenths.
NEGATIVE_COMPOUND == -3
POSITIVE_COMPOUND == 3

\* LLMProvider
GEMINI_FLASH == "gemini_flash"
GROQ == "groq"
LOCAL_SENTIMENT == "local_sentiment"
HARDCODED == "hardcoded"
LLMProvider == {GEMINI_FLASH, GROQ, LOCAL_SENTIMENT, HARDCODED}
\* The keys of ResilientLLMClient.circuit_breakers.
RemoteProviders == {GEMINI_FLASH, GROQ}

\* last_failure: Optional[datetime]; None is -1.
None == -1

VARIABLES
    now,             \* datetime.now()
    gemini_client,   \* self.gemini_client is not None
    GROQ_API_KEY,    \* GROQ_API_KEY is set
    vader_analyzer,  \* self.vader_analyzer is not None
    responds,        \* provider -> whether it answers before the timeout
    circuit_breakers,\* provider -> CircuitBreakerState
    procs,           \* the generate invocations of this run
    pc,              \* invocation -> its suspension point
    prompt,          \* invocation -> the prompt argument
    resp,            \* invocation -> the responses it has returned
    trace,           \* invocation -> the tiers attempted, each with its outcome
                     \* and whether its call was admitted by an open breaker
    half_open_calls, \* provider -> calls admitted while open since the last
                     \* record_failure / record_success
    tripped,         \* provider -> a record_failure opened (or left open) the
                     \* breaker and no call has been admitted since more
                     \* than reset_timeout after the last failure
    text_in,         \* the text given to _analyze_sentiment on its own
    analysis,        \* what _analyze_sentiment returned for text_in
    vitals,          \* the vitals argument of generate_with_vitals
    loop,            \* which loop drives the monitor: run or get_frame_data
    fps,             \* HeartRateMonitor.fps
    frame_gap,       \* milliseconds between two frames the camera delivers
    max_frames,      \* frames the camera delivers before cap.read() fails
    clock,           \* time.time(), in milliseconds
    frame_count,     \* frames read so far (the local frame_count of run)
    dropped,         \* frames read so far that appended no sample
    signal_buffer,   \* HeartRateMonitor.signal_buffer
    time_buffer,     \* HeartRateMonitor.time_buffer, in milliseconds
    hr_history,      \* HeartRateMonitor.hr_history, in hundredths of a BPM
    current_hr,      \* HeartRateMonitor.current_hr, in hundredths of a BPM
    current_hrv,     \* HeartRateMonitor.current_hrv, in milliseconds
    last_face,       \* HeartRateMonitor.last_face
    frame,           \* the last frame read: its shape and its colour levels
    faces,           \* the rectangles detectMultiScale gave for the last frame
    rois_read,       \* what extract_ppg_signal gave for each region of it
    face,            \* the rectangle selected in the last frame
    epochs,          \* calls of calculate_vitals so far
    vitals_result,   \* what the last call of calculate_vitals returned
    estimate,        \* what the estimators gave the last time they ran
    overlay,         \* what the last frame's overlay shows
    frame_data,      \* what the last call of get_frame_data returned
    peaks_in,        \* the peaks given to calculate_hrv_from_peaks on its own
    fs_in,           \* the fs given to it, in millihertz
    rmssd_out,       \* what it returned
    endpoint         \* camera_websocket_endpoint: where the coroutine is, the
                     \* client's messages not yet received, whether monitor
                     \* is set, the capture device, and how the loop was left

sentiment_vars == <<text_in, analysis>>

\* The object fields of a HeartRateMonitor and what its loop has seen.
monitor_fields == <<signal_buffer, time_buffer, hr_history, current_hr,
                    current_hrv, last_face, frame, faces, face, rois_read,
                    epochs, vitals_result, estimate, overlay, frame_data>>

camera_vars == <<loop, fps, frame_gap, max_frames>>

hrv_vars == <<peaks_in, fs_in, rmssd_out>>

monitor_vars == <<camera_vars, clock, frame_count, dropped, monitor_fields,
                  hrv_vars, endpoint>>

\* The variables the cascade leaves alone.
others == <<sentiment_vars, vitals, monitor_vars>>

vars == <<now, gemini_client, GROQ_API_KEY, vader_analyzer, responds,
          circuit_breakers, procs, pc, prompt, resp, trace, half_open_calls,
          tripped, others>>

config == <<gemini_client, GROQ_API_KEY, vader_analyzer, responds, procs>>

\* --------------------------------------------------- CircuitBreakerState
CircuitBreakerState == [failures |-> 0, last_failure |-> None, is_open |-> FALSE]

\* record_failure that stamps last_failure only while the circuit is closed
record_failure_keeps_stamp(b, t) ==
    LET f == b.failures + 1
    IN [failures |-> f,
        last_failure |-> IF b.is_open THEN b.last_failure ELSE t,
        is_open |-> IF f >= failure_threshold THEN TRUE ELSE b.is_open]

record_failure(b, t) ==
    LET f == b.failures + 1
    IN [failures |-> f,
        last_failure |-> t,
        is_open |-> IF f >= failure_threshold THEN TRUE ELSE b.is_open]

\* record_success that resets the counter and leaves the circuit open
record_success_keeps_open(b) ==
    [b EXCEPT !.failures = 0]

record_success(b) ==
    [b EXCEPT !.failures = 0, !.is_open = FALSE]

\* should_allow_request with >= for > in the comparison with reset_timeout
should_allow_request_at_timeout(b, t) ==
    IF ~b.is_open THEN TRUE
    ELSE IF b.last_failure # None /\ t - b.last_failure >= reset_timeout THEN TRUE
    ELSE FALSE

should_allow_request(b, t) ==
    IF ~b.is_open THEN TRUE
    ELSE IF b.last_failure # None /\ t - b.last_failure > reset_timeout THEN TRUE
    ELSE FALSE

\* ------------------------------------------------------------ the prompt
\* A prompt is what the local classifier reads of it: the number of distress
\* indicators it contains, the number of '!' and '?' marks, and the compound
\* score VADER assigns to it (in tenths).
Compounds == (NEGATIVE_COMPOUND - 1)..(POSITIVE_COMPOUND + 1)
Texts == [distress_count : 0..MaxIndicators,
          urgency_marks : 0..MaxMarks,
          compound : Compounds]

\* The prompts given to generate: without indicator or mark, with one
\* indicator and the most marks, with the most indicators and no mark, each
\* with a negative, a neutral and a positive compound score.
Prompts == {t \in Texts :
               /\ <<t.distress_count, t.urgency_marks>> \in
                      {<<0, 0>>, <<1, MaxMarks>>, <<MaxIndicators, 0>>}
               /\ t.compound \in {NEGATIVE_COMPOUND, 0, POSITIVE_COMPOUND}}
\* No prompt: the invocation has not started.
NoPrompt == [distress_count |-> 0, urgency_marks |-> 0, compound |-> 0]

\* gatekeeper.is_distressed; the empty text has no indicator and no mark.
is_distressed(text) ==
    \/ text.distress_count >= 2
    \/ (text.distress_count >= 1 /\ text.urgency_marks >= 2)

\* _analyze_sentiment with < for <= in the negative threshold
_analyze_sentiment_strict(text, vader) ==
    IF vader
    THEN IF text.compound < NEGATIVE_COMPOUND
         THEN [is_distressed |-> TRUE, sentiment |-> "negative", scores |-> {text.compound}]
         ELSE IF text.compound >= POSITIVE_COMPOUND
         THEN [is_distressed |-> FALSE, sentiment |-> "positive", scores |-> {text.compound}]
         ELSE [is_distressed |-> is_distressed(text), sentiment |-> "neutral",
               scores |-> {text.compound}]
    ELSE [is_distressed |-> is_distressed(text),
          sentiment |-> IF is_distressed(text) THEN "negative" ELSE "neutral",
          scores |-> {}]

\* ResilientLLMClient._analyze_sentiment
_analyze_sentiment(text, vader) ==
    IF vader
    THEN IF text.compound <= NEGATIVE_COMPOUND
         THEN [is_distressed |-> TRUE, sentiment |-> "negative", scores |-> {text.compound}]
         ELSE IF text.compound >= POSITIVE_COMPOUND
         THEN [is_distressed |-> FALSE, sentiment |-> "positive", scores |-> {text.compound}]
         ELSE [is_distressed |-> is_distressed(text), sentiment |-> "neutral",
               scores |-> {text.compound}]
    ELSE [is_distressed |-> is_distressed(text),
          sentiment |-> IF is_distressed(text) THEN "negative" ELSE "neutral",
          scores |-> {}]

\* _analyze_sentiment has not been called.
NoAnalysis == [is_distressed |-> FALSE, sentiment |-> "none", scores |-> {}]

\* ------------------------------------------------------------ LLMResponse
\* text is the kind of text carried: the provider's reply or one of the
\* fixed messages of fallback_responses.py.  fallback_reason and sentiment
\* are "None" when not given.
ProviderResponse(provider, fallback_used, fallback_reason) ==
    [success |-> TRUE, text |-> "llm_reply", provider |-> provider,
     fallback_used |-> fallback_used, fallback_reason |-> fallback_reason,
     sentiment |-> "None", metadata |-> {}]

\* generate, lines 193-202
GeminiResponse == ProviderResponse(GEMINI_FLASH, FALSE, "None")

\* the tier 1.5 response without its fallback_reason
GroqResponseNoReason == ProviderResponse(GROQ, TRUE, "None")

\* generate, lines 216-226
GroqResponse == ProviderResponse(GROQ, TRUE, "gemini_unavailable")

\* generate, lines 238-249; metadata is the set of its (key, value) pairs
SentimentResponse(sentiment_result) ==
    [success |-> TRUE, text |-> "HARDCODED_EMERGENCY_CONTACT",
     provider |-> LOCAL_SENTIMENT, fallback_used |-> TRUE,
     fallback_reason |-> "all_llm_unavailable", sentiment |-> "negative",
     metadata |-> {<<"should_alert", {TRUE}>>,
                   <<"sentiment_scores", sentiment_result.scores>>}]

\* the static response with a should_alert entry in its metadata
HardcodedResponseAlerting(sentiment_result) ==
    [success |-> TRUE, text |-> "HARDCODED_NEUTRAL_FALLBACK",
     provider |-> HARDCODED, fallback_used |-> TRUE,
     fallback_reason |-> "all_llm_unavailable", sentiment |-> "neutral",
     metadata |-> {<<"should_alert", {FALSE}>>,
                   <<"sentiment_scores", sentiment_result.scores>>}]

\* the static response flagged as a failure
HardcodedResponseFailed(sentiment_result) ==
    [success |-> FALSE, text |-> "HARDCODED_NEUTRAL_FALLBACK",
     provider |-> HARDCODED, fallback_used |-> TRUE,
     fallback_reason |-> "all_llm_unavailable", sentiment |-> "neutral",
     metadata |-> {<<"sentiment_scores", sentiment_result.scores>>}]

\* generate, lines 251-261
HardcodedResponse(sentiment_result) ==
    [success |-> TRUE, text |-> "HARDCODED_NEUTRAL_FALLBACK",
     provider |-> HARDCODED, fallback_used |-> TRUE,
     fallback_reason |-> "all_llm_unavailable", sentiment |-> "neutral",
     metadata |-> {<<"sentiment_scores", sentiment_result.scores>>}]

\* ------------------------------------------------- generate_with_vitals
\* vitals.get("heart_rate", 75)
DEFAULT_HEART_RATE == 75

\* The vitals dict: whether it has the key heart_rate, and its value, a
\* number of BPM or None.
NoVitals == [has_heart_rate |-> FALSE, heart_rate |-> None]
HeartRates == {59, 60, 61, 99, 100, 101, 119, 120, 121}
Vitals == {NoVitals} \cup
          {[has_heart_rate |-> TRUE, heart_rate |-> h] : h \in HeartRates \cup {None}}

\* get_vital_response_fallback with < for <= at the top of the normal range
get_vital_response_fallback_below_100(heart_rate) ==
    IF 60 <= heart_rate /\ heart_rate < 100
    THEN [risk_level |-> "LOW", message |-> "VITAL_NORMAL",
          action |-> "None", should_follow_up |-> FALSE]
    ELSE IF heart_rate < 60
    THEN [risk_level |-> "MEDIUM", message |-> "VITAL_LOW",
          action |-> "ask_followup", should_follow_up |-> TRUE]
    ELSE IF 100 < heart_rate /\ heart_rate <= 120
    THEN [risk_level |-> "MEDIUM", message |-> "VITAL_ELEVATED",
          action |-> "breathing_exercise", should_follow_up |-> TRUE]
    ELSE [risk_level |-> "HIGH", message |-> "VITAL_HIGH",
          action |-> "clinical_alert", should_follow_up |-> TRUE,
          should_alert_clinician |-> TRUE]

\* fallback_responses.get_vital_response_fallback, for a heart rate that is
\* a number; message is the kind of the message returned.
get_vital_response_fallback(heart_rate) ==
    IF 60 <= heart_rate /\ heart_rate <= 100
    THEN [risk_level |-> "LOW", message |-> "VITAL_NORMAL",
          action |-> "None", should_follow_up |-> FALSE]
    ELSE IF heart_rate < 60
    THEN [risk_level |-> "MEDIUM", message |-> "VITAL_LOW",
          action |-> "ask_followup", should_follow_up |-> TRUE]
    ELSE IF 100 < heart_rate /\ heart_rate <= 120
    THEN [risk_level |-> "MEDIUM", message |-> "VITAL_ELEVATED",
          action |-> "breathing_exercise", should_follow_up |-> TRUE]
    ELSE [risk_level |-> "HIGH", message |-> "VITAL_HIGH",
          action |-> "clinical_alert", should_follow_up |-> TRUE,
          should_alert_clinician |-> TRUE]

\* ------------------------------------------------------ the provider calls
\* _call_gemini without asyncio.wait_for: the wait for a provider that does
\* not answer never ends
_call_gemini_no_timeout(client, answers) ==
    IF ~client THEN {"none"}
    ELSE IF ~answers THEN {}
    ELSE {"text", "empty", "Exception"}

\* What awaiting _call_gemini can end with: a returned value ("text" for a
\* non-empty reply, "empty" for "", "none" for None) or a raised exception.
\* asyncio.wait_for ends the wait of a provider that does not answer.
_call_gemini(client, answers) ==
    IF ~client THEN {"none"}
    ELSE IF ~answers THEN {"TimeoutError"}
    ELSE {"text", "empty", "Exception"}

\* What awaiting _call_groq can end with: "non200" is the None returned for a
\* status other than 200; httpx raises its TimeoutException (an Exception,
\* not asyncio.TimeoutError) when the provider does not answer in time.
_call_groq(key, answers) ==
    IF ~key THEN {"none"}
    ELSE IF ~answers THEN {"TimeoutException"}
    ELSE {"text", "empty", "non200", "Exception"}

\* `if response:` - the returned value is a non-empty string
Truthy(result) == result = "text"

\* the results that are raised exceptions
Raised(result) == result \in {"TimeoutError", "TimeoutException", "Exception"}

\* tier 1 with only its `except asyncio.TimeoutError` clause
GeminiCaughtTimeoutOnly(result) == result = "TimeoutError"

\* the except clauses of tier 1 (lines 203-208): asyncio.TimeoutError, Exception
GeminiCaught(result) == result \in {"TimeoutError", "TimeoutException", "Exception"}

\* the except clauses of tier 1.5 (lines 227-232)
GroqCaught(result) == result \in {"TimeoutError", "TimeoutException", "Exception"}

\* ------------------------------------------------------------- generate
\* The part of the state that generate reads and writes.
Cur == [cb |-> circuit_breakers, pc |-> pc, prompt |-> prompt, resp |-> resp,
        trace |-> trace, hoc |-> half_open_calls, tripped |-> tripped]

Apply(s) ==
    /\ circuit_breakers' = s.cb
    /\ pc' = s.pc
    /\ prompt' = s.prompt
    /\ resp' = s.resp
    /\ trace' = s.trace
    /\ half_open_calls' = s.hoc
    /\ tripped' = s.tripped

\* _should_try_provider without its circuit-breaker check
_should_try_provider_credentials_only(provider, cb) ==
    IF provider = GEMINI_FLASH /\ ~gemini_client THEN FALSE
    ELSE IF provider = GROQ /\ ~GROQ_API_KEY THEN FALSE
    ELSE TRUE

\* ResilientLLMClient._should_try_provider
_should_try_provider(provider, cb) ==
    IF provider = GEMINI_FLASH /\ ~gemini_client THEN FALSE
    ELSE IF provider = GROQ /\ ~GROQ_API_KEY THEN FALSE
    ELSE IF provider \in DOMAIN cb THEN should_allow_request(cb[provider], now)
    ELSE TRUE

\* The call to a provider is issued and generate is suspended on it.
Await(s, p, provider, at) ==
    [s EXCEPT !.pc[p] = at,
              !.trace[p] = Append(@, [tier |-> provider, outcome |-> "pending",
                                      half_open |-> s.cb[provider].is_open]),
              !.hoc[provider] = IF s.cb[provider].is_open THEN @ + 1 ELSE @,
              !.tripped[provider] =
                  IF /\ s.cb[provider].last_failure # None
                     /\ now - s.cb[provider].last_failure > reset_timeout
                  THEN FALSE ELSE @]

\* The awaited call has ended with result.
Ended(s, p, result) ==
    [s EXCEPT !.trace[p] = [@ EXCEPT ![Len(@)].outcome = result]]

\* `return LLMResponse(...)`
Return(s, p, response) ==
    [s EXCEPT !.pc[p] = "done", !.resp[p] = Append(@, response)]

\* An exception leaves generate.
Raise(s, p) == [s EXCEPT !.pc[p] = "raised"]

\* self.circuit_breakers[provider].record_failure()
RecordFailure(s, provider) ==
    [s EXCEPT !.cb[provider] = record_failure(@, now), !.hoc[provider] = 0,
              !.tripped[provider] = record_failure(s.cb[provider], now).is_open]

\* A success that is not reported to the breaker.
RecordSuccessSkipped(s, provider) == s

\* self.circuit_breakers[provider].record_success()
RecordSuccess(s, provider) ==
    [s EXCEPT !.cb[provider] = record_success(@), !.hoc[provider] = 0]

\* TIER 2 and TIER 3 (lines 234-261)
LocalTiers(s, p) ==
    LET sentiment_result == _analyze_sentiment(s.prompt[p], vader_analyzer)
        analysed(o) == [s EXCEPT !.trace[p] =
                           Append(@, [tier |-> LOCAL_SENTIMENT, outcome |-> o,
                                      half_open |-> FALSE])]
        static(t) == [t EXCEPT !.trace[p] =
                         Append(@, [tier |-> HARDCODED, outcome |-> "returned",
                                    half_open |-> FALSE])]
    IN IF sentiment_result.is_distressed
       THEN Return(analysed("distressed"), p, SentimentResponse(sentiment_result))
       ELSE Return(static(analysed("calm")), p, HardcodedResponse(sentiment_result))

\* TIER 1.5, up to the await (lines 210-215)
TryGroq(s, p) ==
    IF _should_try_provider(GROQ, s.cb)
    THEN Await(s, p, GROQ, "await_groq")
    ELSE LocalTiers(s, p)

\* TIER 1, up to the await (lines 187-192)
TryGemini(s, p) ==
    IF _should_try_provider(GEMINI_FLASH, s.cb)
    THEN Await(s, p, GEMINI_FLASH, "await_gemini")
    ELSE TryGroq(s, p)

\* TIER 1.5 from the end of the await (lines 216-232), then the later tiers
AfterGroq(s, p, result) ==
    LET e == Ended(s, p, result)
    IN IF Raised(result)
       THEN IF GroqCaught(result)
            THEN LocalTiers(RecordFailure(e, GROQ), p)
            ELSE Raise(e, p)
       ELSE IF Truthy(result)
       THEN Return(RecordSuccess(e, GROQ), p, GroqResponse)
       ELSE LocalTiers(e, p)

\* tier 1 without the `return` of its success branch
AfterGeminiFallsThrough(s, p, result) ==
    LET e == Ended(s, p, result)
    IN IF Raised(result)
       THEN IF GeminiCaught(result)
            THEN TryGroq(RecordFailure(e, GEMINI_FLASH), p)
            ELSE Raise(e, p)
       ELSE IF Truthy(result)
       THEN TryGroq(RecordSuccess(e, GEMINI_FLASH), p)
       ELSE TryGroq(e, p)

\* TIER 1 from the end of the await (lines 193-208), then the later tiers
AfterGemini(s, p, result) ==
    LET e == Ended(s, p, result)
    IN IF Raised(result)
       THEN IF GeminiCaught(result)
            THEN TryGroq(RecordFailure(e, GEMINI_FLASH), p)
            ELSE Raise(e, p)
       ELSE IF Truthy(result)
       THEN Return(RecordSuccess(e, GEMINI_FLASH), p, GeminiResponse)
       ELSE TryGroq(e, p)

\* ------------------------------------------------------- HeartRateMonitor
\* backend/camera.py.  Timestamps are milliseconds, heart rates hundredths of
\* a BPM and sampling frequencies millihertz, so that the medians and means
\* the code takes of whole-BPM estimates are exact in integers.
WINDOW_SECONDS == 15
MIN_SECONDS == 5
HISTORY_MAXLEN == 10
SMOOTHING_MIN == 3
SMOOTHING_WINDOW == 5
HR_MIN == 45
HR_MAX == 160
RR_MIN_MS == 300
RR_MAX_MS == 2000
RMSSD_MIN == 5
RMSSD_MAX == 200
VITALS_EVERY == 15
CALIBRATION_SECONDS == 8

\* self.buffer_size = int(self.fps * 15)
buffer_size(f) == f * WINDOW_SECONDS

\* min_samples = int(self.fps * 5)
min_samples(f) == f * MIN_SECONDS

\* self.last_face = None
NoFace == <<>>

\* What calculate_vitals returns: (hr, hrv).
NoResult == [hr |-> None, hrv |-> None]

\* The outcome of the spectral and the peak estimators on the buffer:
\* hr_fft, and (hr_peaks, peaks) with <<>> for peaks = None.
NoEstimate == [hr_fft |-> None, hr_peaks |-> None, peaks |-> <<>>]

Abs(n) == IF n < 0 THEN -n ELSE n

RECURSIVE Sum(_)
Sum(s) == IF s = <<>> THEN 0 ELSE Head(s) + Sum(Tail(s))

\* np.mean of a non-empty list
mean(s) == Sum(s) \div Len(s)

\* The k-th smallest element of s.
Kth(s, k) ==
    CHOOSE v \in {s[i] : i \in 1..Len(s)} :
        /\ Cardinality({i \in 1..Len(s) : s[i] < v}) < k
        /\ Cardinality({i \in 1..Len(s) : s[i] <= v}) >= k

\* np.median of a non-empty list: the middle element, or the mean of the two
\* middle elements of an even number.
median(s) ==
    IF Len(s) % 2 = 1
    THEN Kth(s, (Len(s) + 1) \div 2)
    ELSE (Kth(s, Len(s) \div 2) + Kth(s, Len(s) \div 2 + 1)) \div 2

\* list(d)[-n:]
LastN(s, n) == IF Len(s) <= n THEN s ELSE SubSeq(s, Len(s) - n + 1, Len(s))

\* np.sqrt, to the millisecond below, of a value up to RMSSD_MAX squared
sqrt(n) == CHOOSE r \in 0..RMSSD_MAX : r * r <= n /\ n < (r + 1) * (r + 1)

\* deque(maxlen).append(x) on a deque that never drops its oldest element
deque_append_unbounded(d, x, maxlen) == Append(d, x)

\* deque(maxlen).append(x)
deque_append(d, x, maxlen) ==
    IF maxlen = 0 THEN d
    ELSE IF Len(d) >= maxlen THEN Append(Tail(d), x)
    ELSE Append(d, x)

\* min(faces, key=...) and max(faces, key=...) return the first element with
\* the least / greatest key.
Distance(f, last) == Abs(f[1] - last[1]) + Abs(f[2] - last[2])

Area(f) == f[3] * f[4]

closest_face(candidates, last) ==
    candidates[CHOOSE i \in 1..Len(candidates) :
          /\ \A j \in 1..Len(candidates) : Distance(candidates[i], last) <= Distance(candidates[j], last)
          /\ \A j \in 1..(i - 1) : Distance(candidates[j], last) > Distance(candidates[i], last)]

largest_face(candidates) ==
    candidates[CHOOSE i \in 1..Len(candidates) :
          /\ \A j \in 1..Len(candidates) : Area(candidates[i]) >= Area(candidates[j])
          /\ \A j \in 1..(i - 1) : Area(candidates[j]) < Area(candidates[i])]

\* A tracker that always takes the largest rectangle.
select_face_largest(candidates, last) == largest_face(candidates)

\* The selection of run (lines 345-353) and get_frame_data (lines 42-49).
select_face(candidates, last) ==
    IF last # NoFace THEN closest_face(candidates, last) ELSE largest_face(candidates)

\* rr_intervals >= 300 and <= 2000
ValidRR(rr) == RR_MIN_MS <= rr /\ rr <= RR_MAX_MS

\* calculate_hrv_from_peaks(peaks, fs): peaks are sample indices, fs is in
\* millihertz; the result is the RMSSD in milliseconds or None.  The band
\* test `rmssd < 5 or rmssd > 200` is taken on the mean square, exactly.
calculate_hrv_from_peaks(peaks, fs) ==
    IF Len(peaks) < 3 THEN None
    ELSE LET rr_intervals == [i \in 1..(Len(peaks) - 1) |->
                                 ((peaks[i + 1] - peaks[i]) * 1000 * 1000) \div fs]
             valid_rr == SelectSeq(rr_intervals, ValidRR)
             successive_diffs == [i \in 1..(Len(valid_rr) - 1) |->
                                     valid_rr[i + 1] - valid_rr[i]]
             squares == [i \in 1..Len(successive_diffs) |->
                            successive_diffs[i] * successive_diffs[i]]
             n == Len(successive_diffs)
         IN IF Len(valid_rr) < 3 THEN None
            ELSE IF \/ Sum(squares) < RMSSD_MIN * RMSSD_MIN * n
                    \/ Sum(squares) > RMSSD_MAX * RMSSD_MAX * n
            THEN None
            ELSE sqrt(mean(squares))

\* The fields of the monitor.
Mon ==
    [signal_buffer |-> signal_buffer, time_buffer |-> time_buffer,
     hr_history |-> hr_history, current_hr |-> current_hr,
     current_hrv |-> current_hrv, last_face |-> last_face,
     frame |-> frame, faces |-> faces, face |-> face,
     rois_read |-> rois_read, epochs |-> epochs,
     vitals_result |-> vitals_result, estimate |-> estimate,
     overlay |-> overlay,
     frame_data |-> frame_data]

\* The monitor becomes m.
SetMon(m) ==
    /\ signal_buffer' = m.signal_buffer
    /\ time_buffer' = m.time_buffer
    /\ hr_history' = m.hr_history
    /\ current_hr' = m.current_hr
    /\ current_hrv' = m.current_hrv
    /\ last_face' = m.last_face
    /\ frame' = m.frame
    /\ faces' = m.faces
    /\ face' = m.face
    /\ rois_read' = m.rois_read
    /\ epochs' = m.epochs
    /\ vitals_result' = m.vitals_result
    /\ estimate' = m.estimate
    /\ overlay' = m.overlay
    /\ frame_data' = m.frame_data

\* actual_fs of calculate_vitals (lines 252-260), in millihertz.
actual_fs(m, f) ==
    IF Len(m.time_buffer) > 1
    THEN LET actual_duration == m.time_buffer[Len(m.time_buffer)] - m.time_buffer[1]
         IN IF actual_duration > 0
            THEN (Len(m.signal_buffer) * 1000 * 1000) \div actual_duration
            ELSE f * 1000
    ELSE f * 1000

\* A band that includes its edges.
Plausible_inclusive(hr) == hr # None /\ HR_MIN * 100 <= hr /\ hr <= HR_MAX * 100

\* hr is not None and 45 < hr < 160
Plausible(hr) == hr # None /\ HR_MIN * 100 < hr /\ hr < HR_MAX * 100

\* A smoothing that reports the median of the whole history.
smooth_whole_history(history, hr) ==
    IF Len(history) >= SMOOTHING_MIN THEN median(history) ELSE hr

\* smoothed_hr of calculate_vitals (lines 293-297)
smooth(history, hr) ==
    IF Len(history) >= SMOOTHING_MIN
    THEN median(LastN(history, SMOOTHING_WINDOW))
    ELSE hr

\* calculate_vitals on monitor m with nominal rate f, where the estimators
\* give est on the buffer.  An exception of the signal processing is caught
\* and gives (None, None) like an estimation without a plausible value.
calculate_vitals(m, f, est) ==
    LET called == [m EXCEPT !.epochs = @ + 1, !.vitals_result = NoResult]
        hr_estimates == SelectSeq(<<est.hr_fft, est.hr_peaks>>, Plausible)
        hr == median(hr_estimates)
        history == deque_append(m.hr_history, hr, HISTORY_MAXLEN)
        hrv == IF Len(est.peaks) >= 3
               THEN calculate_hrv_from_peaks(est.peaks, actual_fs(m, f))
               ELSE None
    IN IF Len(m.signal_buffer) < min_samples(f) THEN called
       ELSE IF hr_estimates = <<>> THEN [called EXCEPT !.estimate = est]
       ELSE [called EXCEPT !.estimate = est,
                           !.hr_history = history,
                           !.vitals_result = [hr |-> smooth(history, hr),
                                              hrv |-> hrv]]

\* hr, hrv = self.calculate_vitals(); if hr is not None: ...
update_vitals(m, f, est) ==
    LET r == calculate_vitals(m, f, est)
    IN IF r.vitals_result.hr # None
       THEN [r EXCEPT !.current_hr = r.vitals_result.hr,
                      !.current_hrv = r.vitals_result.hrv]
       ELSE r

\* A frame: frame.shape[:2] and the levels of its green and red channels,
\* one level in the columns left of split and one in the others.
NoFrame == [height |-> 0, width |-> 0, split |-> 0,
            green |-> <<0, 0>>, red |-> <<0, 0>>]

\* 0.7 * np.mean(g) + 0.3 * np.mean(r) over the columns x .. x + w - 1 of
\* image, to the whole level below.
ppg_level(image, x, w) ==
    LET left == IF image.split > x + w THEN w
                ELSE IF image.split > x THEN image.split - x ELSE 0
        right == w - left
    IN (7 * (left * image.green[1] + right * image.green[2])
        + 3 * (left * image.red[1] + right * image.red[2])) \div (10 * w)

Min(a, b) == IF a < b THEN a ELSE b

Max(a, b) == IF a > b THEN a ELSE b

\* get_face_rois: forehead, left cheek, right cheek, each (x, y, w, h); int()
\* of a product with a non-negative size is the whole part of it.
get_face_rois(selected) ==
    LET x == selected[1]
        y == selected[2]
        w == selected[3]
        h == selected[4]
    IN <<<<x + (w * 25) \div 100, y + (h * 5) \div 100,
           (w * 50) \div 100, (h * 15) \div 100>>,
         <<x + (w * 10) \div 100, y + (h * 45) \div 100,
           (w * 25) \div 100, (h * 25) \div 100>>,
         <<x + (w * 65) \div 100, y + (h * 45) \div 100,
           (w * 25) \div 100, (h * 25) \div 100>>>>

\* extract_ppg_signal returned None.
NoSignal == [signal |-> None, region |-> <<>>]

\* An extraction that clamps the corner of the region but not its size.
extract_ppg_signal_unclamped_size(image, roi) ==
    LET x == Max(0, Min(roi[1], image.width - 1))
        y == Max(0, Min(roi[2], image.height - 1))
    IN IF roi[3] <= 0 \/ roi[4] <= 0 THEN NoSignal
       ELSE [signal |-> ppg_level(image, x, roi[3]),
             region |-> <<x, y, roi[3], roi[4]>>]

\* extract_ppg_signal(frame, roi): the signal 0.7 * mean(g) + 0.3 * mean(r)
\* of the slice frame[y : y + h, x : x + w], and that slice as region.
extract_ppg_signal(image, roi) ==
    LET x == Max(0, Min(roi[1], image.width - 1))
        y == Max(0, Min(roi[2], image.height - 1))
        w == Min(roi[3], image.width - x)
        h == Min(roi[4], image.height - y)
    IN IF w <= 0 \/ h <= 0 THEN NoSignal
       ELSE [signal |-> ppg_level(image, x, w),
             region |-> <<x, y, w, h>>]

\* The values of the regions that gave one (lines 365-375).
valid_signals(read) ==
    LET given == SelectSeq(read, LAMBDA r : r # NoSignal)
    IN [i \in 1..Len(given) |-> given[i].signal]

\* A frame that leaves last_face as it was when no face is detected.
process_frame_keeps_last_face(m, f, t, detected, image, est, due) ==
    IF Len(detected) > 0
    THEN LET selected == select_face(detected, m.last_face)
             rois == get_face_rois(selected)
             read == [i \in 1..Len(rois) |-> extract_ppg_signal(image, rois[i])]
             signals == valid_signals(read)
             tracked == [m EXCEPT !.frame = image, !.faces = detected,
                                  !.face = selected, !.last_face = selected,
                                  !.rois_read = read]
             sampled == IF signals # <<>>
                        THEN [tracked EXCEPT
                                !.signal_buffer =
                                    deque_append(@, mean(signals), buffer_size(f)),
                                !.time_buffer =
                                    deque_append(@, t, buffer_size(f))]
                        ELSE tracked
         IN IF due THEN update_vitals(sampled, f, est) ELSE sampled
    ELSE [m EXCEPT !.frame = image, !.faces = detected, !.face = NoFace,
                   !.rois_read = <<>>]

\* One frame of run (lines 330-388, 473-474) or of get_frame_data (lines
\* 26-80, 164-165) read at time t: image is the frame, detected are the
\* rectangles found in it, and due says whether this frame calculates the
\* vitals.
process_frame(m, f, t, detected, image, est, due) ==
    IF Len(detected) > 0
    THEN LET selected == select_face(detected, m.last_face)
             rois == get_face_rois(selected)
             read == [i \in 1..Len(rois) |-> extract_ppg_signal(image, rois[i])]
             signals == valid_signals(read)
             tracked == [m EXCEPT !.frame = image, !.faces = detected,
                                  !.face = selected, !.last_face = selected,
                                  !.rois_read = read]
             sampled == IF signals # <<>>
                        THEN [tracked EXCEPT
                                !.signal_buffer =
                                    deque_append(@, mean(signals), buffer_size(f)),
                                !.time_buffer =
                                    deque_append(@, t, buffer_size(f))]
                        ELSE tracked
         IN IF due THEN update_vitals(sampled, f, est) ELSE sampled
    ELSE [m EXCEPT !.frame = image, !.faces = detected, !.face = NoFace,
                   !.last_face = NoFace, !.rois_read = <<>>]

\* round(x) and f"{x:.0f}" of a heart rate: the nearest whole BPM, the even
\* one of two equally near.
round(hr) ==
    LET whole == hr \div 100
        rest == hr % 100
    IN IF rest < 50 THEN whole
       ELSE IF rest > 50 THEN whole + 1
       ELSE IF whole % 2 = 0 THEN whole ELSE whole + 1

\* No frame has been drawn.
NoOverlay == [status |-> "none", heart_rate |-> None]

\* get_frame_data has not returned.
NoFrameData ==
    [face_detected |-> FALSE, heart_rate |-> None, hrv |-> None,
     confidence |-> 0, calibration_progress |-> 0]

\* The texts drawn on the frame, in run (lines 390-495) and in get_frame_data
\* (lines 82-183): the heart rate with "Status: MEASURING" when current_hr is
\* set, "Calibrating" when it is not, "No face detected" without a face.
draw_overlay(m) ==
    [m EXCEPT !.overlay =
        IF Len(m.faces) = 0 THEN [status |-> "NO_FACE", heart_rate |-> None]
        ELSE IF m.current_hr # None
        THEN [status |-> "MEASURING", heart_rate |-> round(m.current_hr)]
        ELSE [status |-> "CALIBRATING", heart_rate |-> None]]

\* The dictionary get_frame_data returns (lines 200-211); the progress is the
\* whole percent below.
frame_payload(m, f) ==
    [m EXCEPT !.frame_data =
        [face_detected |-> Len(m.faces) > 0,
         heart_rate |-> IF m.current_hr # None /\ m.current_hr # 0
                        THEN round(m.current_hr) ELSE None,
         hrv |-> m.current_hrv,
         confidence |-> IF Len(m.hr_history) * 10 < 100
                        THEN Len(m.hr_history) * 10 ELSE 100,
         calibration_progress |->
             IF m.current_hr = None
             THEN IF (Len(m.signal_buffer) * 100) \div (f * CALIBRATION_SECONDS) < 100
                  THEN (Len(m.signal_buffer) * 100) \div (f * CALIBRATION_SECONDS)
                  ELSE 100
             ELSE 100]]

\* calculate_hrv_from_peaks has not returned.
NoRmssd == [returned |-> FALSE, rmssd |-> None]

\* No monitor has been created and no HRV is being computed on its own.
HrvIdle ==
    /\ peaks_in = <<>>
    /\ fs_in = 0
    /\ rmssd_out = NoRmssd

\* camera_websocket_endpoint is not running.
NoEndpoint ==
    [pc |-> "none", inbox |-> <<>>, monitor |-> FALSE, cap |-> "none",
     left |-> "none"]

EndpointIdle == endpoint = NoEndpoint

\* HeartRateMonitor.__init__ (lines 11-40): the fields of a new monitor.
MonitorNew ==
    /\ clock = 0
    /\ frame_count = 0
    /\ dropped = 0
    /\ signal_buffer = <<>>
    /\ time_buffer = <<>>
    /\ hr_history = <<>>
    /\ current_hr = None
    /\ current_hrv = None
    /\ last_face = NoFace
    /\ frame = NoFrame
    /\ faces = <<>>
    /\ face = NoFace
    /\ rois_read = <<>>
    /\ epochs = 0
    /\ vitals_result = NoResult
    /\ estimate = NoEstimate
    /\ overlay = NoOverlay
    /\ frame_data = NoFrameData

MonitorIdle ==
    /\ loop = "none"
    /\ fps = 0
    /\ frame_gap = 0
    /\ max_frames = 0
    /\ MonitorNew
    /\ EndpointIdle
    /\ HrvIdle

\* ---------------------------------------------------------------- actions
\* A caller awaits generate(prompt=text): it runs to its first suspension
\* point, or to its return when no remote tier is tried.
Generate(p, text) ==
    /\ pc[p] = "idle"
    /\ \A q \in RemoteProviders :
          /\ circuit_breakers[q].failures < MaxFailures
          /\ half_open_calls[q] < MaxTrials
    /\ Apply(TryGemini([Cur EXCEPT !.prompt[p] = text], p))
    /\ UNCHANGED <<now, config, others>>

\* The awaited _call_gemini ends and generate runs on.
GeminiDone(p) ==
    /\ pc[p] = "await_gemini"
    /\ \E result \in _call_gemini(gemini_client, responds[GEMINI_FLASH]) :
          Apply(AfterGemini(Cur, p, result))
    /\ UNCHANGED <<now, config, others>>

\* The awaited _call_groq ends and generate runs on.
GroqDone(p) ==
    /\ pc[p] = "await_groq"
    /\ \E result \in _call_groq(GROQ_API_KEY, responds[GROQ]) :
          Apply(AfterGroq(Cur, p, result))
    /\ UNCHANGED <<now, config, others>>

\* The caller takes the response; the invocation is over.
Collect(p) ==
    /\ pc[p] = "done"
    /\ pc' = [pc EXCEPT ![p] = "idle"]
    /\ prompt' = [prompt EXCEPT ![p] = NoPrompt]
    /\ resp' = [resp EXCEPT ![p] = <<>>]
    /\ trace' = [trace EXCEPT ![p] = <<>>]
    /\ UNCHANGED <<now, config, circuit_breakers, half_open_calls, tripped, others>>

\* The wall clock advances.
Tick ==
    /\ now + TickStep <= MaxTime
    /\ now' = now + TickStep
    /\ UNCHANGED <<config, circuit_breakers, pc, prompt, resp, trace, half_open_calls,
                   tripped,
                   others>>

\* No text is being analysed on its own.
SentimentIdle ==
    /\ text_in = NoPrompt
    /\ analysis = NoAnalysis

\* generate is called without vitals.
VitalsIdle == vitals = NoVitals

\* The state after ResilientLLMClient.__init__, with the invocations P.
ClientInit(P) ==
    /\ now = 0
    /\ gemini_client \in BOOLEAN
    /\ GROQ_API_KEY \in BOOLEAN
    /\ vader_analyzer \in BOOLEAN
    /\ responds \in [RemoteProviders -> BOOLEAN]
    /\ circuit_breakers = [q \in RemoteProviders |-> CircuitBreakerState]
    /\ procs = P
    /\ pc = [p \in P |-> "idle"]
    /\ prompt = [p \in P |-> NoPrompt]
    /\ resp = [p \in P |-> <<>>]
    /\ trace = [p \in P |-> <<>>]
    /\ half_open_calls = [q \in RemoteProviders |-> 0]
    /\ tripped = [q \in RemoteProviders |-> FALSE]

InitWith(P) ==
    /\ ClientInit(P)
    /\ SentimentIdle
    /\ VitalsIdle
    /\ MonitorIdle

Init == InitWith({1})

Next ==
    \/ \E p \in procs, text \in Prompts : Generate(p, text)
    \/ \E p \in procs : GeminiDone(p)
    \/ \E p \in procs : GroqDone(p)
    \/ \E p \in procs : Collect(p)
    \/ Tick

\* The awaited call of an invocation ends, by an answer or by its timeout
\* (asyncio.wait_for for gemini, the httpx timeout for groq), and the event
\* loop resumes the coroutine.
Fairness ==
    /\ WF_vars(GeminiDone(1))
    /\ WF_vars(GroqDone(1))

LiveSpec == Init /\ [][Next]_vars /\ Fairness

Spec == Init /\ [][Next]_vars

\* ------------------------------------------------- generate_with_vitals
\* generate_with_vitals from the return of its `await self.generate(...)`
\* (lines 454-465).  Comparing a heart_rate of None with a number raises
\* TypeError in get_vital_response_fallback, and nothing catches it.
VitalsReturn(p) ==
    /\ pc[p] = "done"
    /\ LET response == resp[p][1]
           heart_rate == IF vitals.has_heart_rate THEN vitals.heart_rate
                         ELSE DEFAULT_HEART_RATE
           fallback == get_vital_response_fallback(heart_rate)
       IN IF response.provider = HARDCODED
          THEN IF heart_rate = None
               THEN /\ pc' = [pc EXCEPT ![p] = "raised"]
                    /\ resp' = [resp EXCEPT ![p] = <<>>]
               ELSE /\ pc' = [pc EXCEPT ![p] = "returned"]
                    /\ resp' = [resp EXCEPT ![p] =
                          <<[response EXCEPT
                               !.text = fallback.message,
                               !.metadata = @ \cup {<<"vital_fallback", {fallback}>>}]>>]
          ELSE /\ pc' = [pc EXCEPT ![p] = "returned"]
               /\ resp' = resp
    /\ UNCHANGED <<now, config, circuit_breakers, prompt, trace, half_open_calls,
                   tripped,
                   others>>

\* One call of generate_with_vitals on a new client, with any vitals.
VitalsInit ==
    /\ ClientInit({1})
    /\ SentimentIdle
    /\ vitals \in Vitals
    /\ MonitorIdle

VitalsNext ==
    \/ \E p \in procs, text \in Prompts : Generate(p, text)
    \/ \E p \in procs : GeminiDone(p)
    \/ \E p \in procs : GroqDone(p)
    \/ \E p \in procs : VitalsReturn(p)

VitalsSpec == VitalsInit /\ [][VitalsNext]_vars

\* ------------------------------------------------- concurrent invocations
\* Two coroutines await generate on the client get_llm_client returns (lines
\* 486-495), with gemini configured and answering, and no groq key; between
\* two suspension points a coroutine runs alone on the event loop.
ConcurrentPrompts == {t \in Prompts : t.distress_count = 0 /\ t.compound = 0}

ConcurrentInit ==
    /\ ClientInit({1, 2})
    /\ gemini_client
    /\ ~GROQ_API_KEY
    /\ ~vader_analyzer
    /\ responds = [q \in RemoteProviders |-> q = GEMINI_FLASH]
    /\ SentimentIdle
    /\ VitalsIdle
    /\ MonitorIdle

ConcurrentNext ==
    \/ \E p \in procs, text \in ConcurrentPrompts : Generate(p, text)
    \/ \E p \in procs : GeminiDone(p)
    \/ \E p \in procs : Collect(p)
    \/ Tick

ConcurrentSpec == ConcurrentInit /\ [][ConcurrentNext]_vars

\* ------------------------------------------------------ provider recovery
\* One provider is configured and does not answer; at some point it comes
\* back, and from then on it answers every call with a non-empty text.
RecoveryInit ==
    /\ ClientInit({1})
    /\ gemini_client # GROQ_API_KEY
    /\ ~vader_analyzer
    /\ responds = [q \in RemoteProviders |-> FALSE]
    /\ SentimentIdle
    /\ VitalsIdle
    /\ MonitorIdle

\* The provider q comes back.
Recover(q) ==
    /\ ~responds[q]
    /\ responds' = [responds EXCEPT ![q] = TRUE]
    /\ UNCHANGED <<now, gemini_client, GROQ_API_KEY, vader_analyzer, procs,
                   circuit_breakers, pc, prompt, resp, trace, half_open_calls,
                   tripped, others>>

\* The awaited _call_gemini returns the non-empty text of a provider that has
\* come back.
GeminiAnswers(p) ==
    /\ pc[p] = "await_gemini"
    /\ responds[GEMINI_FLASH]
    /\ Apply(AfterGemini(Cur, p, "text"))
    /\ UNCHANGED <<now, config, others>>

\* The awaited _call_groq returns the non-empty text of a provider that has
\* come back.
GroqAnswers(p) ==
    /\ pc[p] = "await_groq"
    /\ responds[GROQ]
    /\ Apply(AfterGroq(Cur, p, "text"))
    /\ UNCHANGED <<now, config, others>>

RecoveryNext ==
    \/ \E text \in ConcurrentPrompts : Generate(1, text)
    \/ ~responds[GEMINI_FLASH] /\ GeminiDone(1)
    \/ ~responds[GROQ] /\ GroqDone(1)
    \/ GeminiAnswers(1)
    \/ GroqAnswers(1)
    \/ Collect(1)
    \/ Tick
    \/ \E q \in RemoteProviders : Recover(q)

\* The event loop resumes an awaited call that has ended; the clock advances
\* and the callers keep invoking generate and taking its response.
RecoveryFairness ==
    /\ WF_vars(~responds[GEMINI_FLASH] /\ GeminiDone(1))
    /\ WF_vars(~responds[GROQ] /\ GroqDone(1))
    /\ WF_vars(GeminiAnswers(1))
    /\ WF_vars(GroqAnswers(1))
    /\ WF_vars(\E text \in ConcurrentPrompts : Generate(1, text))
    /\ WF_vars(Collect(1))
    /\ WF_vars(Tick)

RecoverySpec == RecoveryInit /\ [][RecoveryNext]_vars /\ RecoveryFairness

\* ------------------------------------------------- the local classifier
\* A client without remote providers and without invocations.
CascadeIdle ==
    /\ now = 0
    /\ gemini_client = FALSE
    /\ GROQ_API_KEY = FALSE
    /\ responds = [q \in RemoteProviders |-> FALSE]
    /\ circuit_breakers = [q \in RemoteProviders |-> CircuitBreakerState]
    /\ procs = {}
    /\ pc = <<>>
    /\ prompt = <<>>
    /\ resp = <<>>
    /\ trace = <<>>
    /\ half_open_calls = [q \in RemoteProviders |-> 0]
    /\ tripped = [q \in RemoteProviders |-> FALSE]

cascade_vars == <<now, gemini_client, GROQ_API_KEY, vader_analyzer, responds,
                  circuit_breakers, procs, pc, prompt, resp, trace,
                  half_open_calls, tripped>>

\* self._analyze_sentiment(text_in)
AnalyzeSentiment ==
    /\ analysis = NoAnalysis
    /\ analysis' = _analyze_sentiment(text_in, vader_analyzer)
    /\ UNCHANGED <<cascade_vars, text_in, vitals, monitor_vars>>

\* Any text, with and without the VADER analyzer.
SentimentInit ==
    /\ CascadeIdle
    /\ vader_analyzer \in BOOLEAN
    /\ text_in \in Texts
    /\ analysis = NoAnalysis
    /\ VitalsIdle
    /\ MonitorIdle

SentimentNext == AnalyzeSentiment

SentimentSpec == SentimentInit /\ [][SentimentNext]_vars

\* ------------------------------------------------ the loops of the monitor
\* A client that is not used, next to a monitor.
ClientIdle ==
    /\ CascadeIdle
    /\ vader_analyzer = FALSE
    /\ SentimentIdle
    /\ VitalsIdle

\* The frame processed into m appended nothing: it had no face, or no region
\* with a signal.
Drops(m) == Len(m.faces) = 0 \/ valid_signals(m.rois_read) = <<>>

\* One iteration of the loop of HeartRateMonitor.run (lines 329-388 and
\* 473-474): the vitals are calculated on every 15th frame read.
RunFrame(detected, image, est) ==
    /\ loop = "run"
    /\ frame_count < max_frames
    /\ frame_count' = frame_count + 1
    /\ clock' = clock + frame_gap
    /\ \E processed \in {process_frame(Mon, fps, clock + frame_gap, detected,
                                        image, est,
                                        (frame_count + 1) % VITALS_EVERY = 0)} :
          /\ dropped' = IF Drops(processed) THEN dropped + 1 ELSE dropped
          /\ \E drawn \in {draw_overlay(processed)} : SetMon(drawn)
    /\ UNCHANGED <<cascade_vars, sentiment_vars, vitals, camera_vars, hrv_vars,
                   endpoint>>

\* One call of WebSocketHeartRateMonitor.get_frame_data (lines 24-80 and
\* 164-165): the vitals are calculated on every frame with a face.
get_frame_data(detected, image, est) ==
    /\ loop = "stream"
    /\ frame_count < max_frames
    /\ frame_count' = frame_count + 1
    /\ clock' = clock + frame_gap
    /\ \E processed \in {process_frame(Mon, fps, clock + frame_gap, detected,
                                        image, est, TRUE)} :
          /\ dropped' = IF Drops(processed) THEN dropped + 1 ELSE dropped
          /\ \E drawn \in {draw_overlay(processed)} :
                \E returned \in {frame_payload(drawn, fps)} : SetMon(returned)

\* One call of get_frame_data by a caller that streams the frames.
StreamFrame(detected, image, est) ==
    /\ get_frame_data(detected, image, est)
    /\ UNCHANGED <<cascade_vars, sentiment_vars, vitals, camera_vars, hrv_vars,
                   endpoint>>

\* A face rectangle (x, y, w, h) as detectMultiScale gives it.
OneFace == <<10, 20, 100, 100>>

\* A face rectangle too small for any of its regions to have an area.
TinyFace == <<10, 20, 2, 2>>

\* Frame n of a 640 x 480 camera: every region of a face gives the signal n,
\* so the value of a sample is the number of its frame.
UniformFrame(n) ==
    [height |-> 480, width |-> 640, split |-> 0,
     green |-> <<n, n>>, red |-> <<n, n>>]

\* An estimation whose spectral estimate is hr and whose peak detection fails.
SpectralEstimate(hr) == [hr_fft |-> hr, hr_peaks |-> None, peaks |-> <<>>]

\* Milliseconds between frames: a camera faster than, at, and slower than a
\* nominal rate of one frame per second.
FrameGaps == {100, 1000, 2000}

\* A monitor on a camera of any nominal and actual rate, in either loop, runs
\* until its buffer is full and MaxExtraFrames more frames were read; up to
\* MaxDropped frames have no face or no signal.
BufferInit ==
    /\ ClientIdle
    /\ loop \in {"run", "stream"}
    /\ fps \in 1..MaxFps
    /\ frame_gap \in FrameGaps
    /\ max_frames = buffer_size(fps) + MaxExtraFrames
    /\ MonitorNew
    /\ EndpointIdle
    /\ HrvIdle

BufferFaces ==
    IF dropped < MaxDropped
    THEN {<<>>, <<TinyFace>>, <<OneFace>>}
    ELSE {<<OneFace>>}

\* Every estimation on a buffer of min_samples samples gives 72 BPM.
BufferEstimates == {SpectralEstimate(72 * 100)}

BufferNext ==
    \/ \E detected \in BufferFaces, est \in BufferEstimates :
          RunFrame(detected, UniformFrame(frame_count + 1), est)
    \/ \E detected \in BufferFaces, est \in BufferEstimates :
          StreamFrame(detected, UniformFrame(frame_count + 1), est)

BufferSpec == BufferInit /\ [][BufferNext]_vars

\* ------------------------------------------------------ smoothing epochs
\* Raw estimates in BPM: the first epochs of a session draw from all of
\* them, the later ones from an ordinary value and an outlier.
RawEstimates == {69, 70, 71, 72, 150}

LateEstimates == {71, 150}

\* The epoch the next frame runs, counted from the first one whose buffer
\* has min_samples samples.
NextEpoch == frame_count + 2 - min_samples(fps)

SmoothEstimates ==
    {SpectralEstimate(hr * 100) :
        hr \in IF NextEpoch <= SMOOTHING_WINDOW THEN RawEstimates ELSE LateEstimates}

\* A stream at the nominal rate with a face in every frame, until MaxEpochs
\* epochs have had a buffer of min_samples samples.
SmoothInit ==
    /\ ClientIdle
    /\ loop = "stream"
    /\ fps = 1
    /\ frame_gap = 1000
    /\ max_frames = min_samples(fps) - 1 + MaxEpochs
    /\ MonitorNew
    /\ EndpointIdle
    /\ HrvIdle

SmoothNext ==
    \E est \in SmoothEstimates :
        StreamFrame(<<OneFace>>, UniformFrame(frame_count + 1), est)

SmoothSpec == SmoothInit /\ [][SmoothNext]_vars

\* ----------------------------------------------- calculate_hrv_from_peaks
\* Samples between two successive peaks at 10 Hz: R-R intervals of 200, 300,
\* 900, 1000, 2000 and 2100 ms.
PeakGaps == {2, 3, 9, 10, 20, 21}

RECURSIVE PeaksFrom(_, _)
\* The peak indices that start at sample first and lie gaps apart.
PeaksFrom(first, gaps) ==
    IF gaps = <<>> THEN <<first>>
    ELSE <<first>> \o PeaksFrom(first + Head(gaps), Tail(gaps))

\* The peak trains of up to MaxIntervals intervals, and no peaks at all.
PeakTrains ==
    {<<>>} \cup
    UNION {{PeaksFrom(1, gaps) : gaps \in [1..n -> PeakGaps]} : n \in 0..MaxIntervals}

\* self.calculate_hrv_from_peaks(peaks_in, fs_in)
ComputeHrv ==
    /\ ~rmssd_out.returned
    /\ rmssd_out' = [returned |-> TRUE,
                     rmssd |-> calculate_hrv_from_peaks(peaks_in, fs_in)]
    /\ UNCHANGED <<cascade_vars, sentiment_vars, vitals, camera_vars, clock,
                   frame_count, dropped, monitor_fields, peaks_in, fs_in,
                   endpoint>>

\* Any peak train, sampled at 10 Hz.
HrvInit ==
    /\ ClientIdle
    /\ loop = "none"
    /\ fps = 0
    /\ frame_gap = 0
    /\ max_frames = 0
    /\ MonitorNew
    /\ EndpointIdle
    /\ peaks_in \in PeakTrains
    /\ fs_in = 10 * 1000
    /\ rmssd_out = NoRmssd

HrvNext == ComputeHrv

HrvSpec == HrvInit /\ [][HrvNext]_vars

\* ------------------------------------------------------------ the tracker
\* Top-left corners of the rectangles detectMultiScale can give: the second
\* is nearer to the first than the third is, though farther along x, and the
\* first and the third are equally far from the second.
Corners == {<<0, 0>>, <<10, 20>>, <<0, 40>>}

\* The rectangles (x, y, w, h), of a smaller and a larger size.
Rects == {<<c[1], c[2], size, size>> : c \in Corners, size \in {100, 150}}

\* The results of a detection: no rectangle, or up to MaxFaces rectangles in
\* any order.
FaceLists == UNION {[1..n -> Rects] : n \in 0..MaxFaces}

\* A session of MaxTrackFrames frames at the nominal rate, in either loop.
TrackInit ==
    /\ ClientIdle
    /\ loop \in {"run", "stream"}
    /\ fps = 1
    /\ frame_gap = 1000
    /\ max_frames = MaxTrackFrames
    /\ MonitorNew
    /\ EndpointIdle
    /\ HrvIdle

TrackNext ==
    \/ \E detected \in FaceLists :
          RunFrame(detected, UniformFrame(frame_count + 1), NoEstimate)
    \/ \E detected \in FaceLists :
          StreamFrame(detected, UniformFrame(frame_count + 1), NoEstimate)

TrackSpec == TrackInit /\ [][TrackNext]_vars

\* ---------------------------------------------------- the epochs of a loop
\* What an estimator can give, in hundredths of a BPM: nothing, the edges 45
\* and 160 of the plausible band, and values inside it.
EstimatorValues == {None, 45 * 100, 46 * 100, 73 * 100, 160 * 100}

\* The outcomes of the two estimators on a buffer; calculate_hr_peaks gives
\* its peaks, at least 3, whenever it gives a heart rate.
Estimates ==
    {[hr_fft |-> a, hr_peaks |-> b,
      peaks |-> IF b = None THEN <<>> ELSE <<1, 2, 3, 4>>] :
        a \in EstimatorValues, b \in EstimatorValues}

\* A monitor at the nominal rate, in either loop, until MaxLoopEpochs epochs
\* had a buffer of min_samples samples.
EpochInit ==
    /\ ClientIdle
    /\ loop \in {"run", "stream"}
    /\ fps = 1
    /\ frame_gap = 1000
    /\ max_frames = IF loop = "run" THEN VITALS_EVERY * MaxLoopEpochs
                    ELSE min_samples(fps) - 1 + MaxLoopEpochs
    /\ MonitorNew
    /\ EndpointIdle
    /\ HrvIdle

\* The estimators run only in a frame that calculates the vitals on a buffer
\* that can hold min_samples samples.
EpochEstimates ==
    IF \/ loop = "run" /\ (frame_count + 1) % VITALS_EVERY # 0
       \/ frame_count + 1 < min_samples(fps)
    THEN {NoEstimate}
    ELSE Estimates

EpochNext ==
    \/ \E detected \in BufferFaces, est \in EpochEstimates :
          RunFrame(detected, UniformFrame(frame_count + 1), est)
    \/ \E detected \in BufferFaces, est \in EpochEstimates :
          StreamFrame(detected, UniformFrame(frame_count + 1), est)

EpochSpec == EpochInit /\ [][EpochNext]_vars

\* ------------------------------------------------- the regions of a face
\* Rectangles whose regions lie across the middle of a 640 x 480 frame, have
\* no area, have an area only on the cheeks, and reach beyond the right and
\* lower edge.
RoiFaces ==
    {<<280, 20, 100, 100>>, TinyFace, <<0, 0, 4, 4>>, <<600, 400, 100, 100>>}

\* No face or one face.
RoiFaceLists == {<<>>} \cup {<<f>> : f \in RoiFaces}

\* Frames of a 640 x 480 and of a 40 x 30 camera, darker in their left half:
\* green 100 and 200, red 200 and 300 in frame 1, 10 more in each later frame.
RoiFrames(n) ==
    {[height |-> shape[1], width |-> shape[2], split |-> shape[2] \div 2,
      green |-> <<90 + 10 * n, 190 + 10 * n>>,
      red |-> <<190 + 10 * n, 290 + 10 * n>>] :
        shape \in {<<480, 640>>, <<30, 40>>}}

\* A session of MaxRoiFrames frames at the nominal rate, in either loop.
RoiInit ==
    /\ ClientIdle
    /\ loop \in {"run", "stream"}
    /\ fps = 1
    /\ frame_gap = 1000
    /\ max_frames = MaxRoiFrames
    /\ MonitorNew
    /\ EndpointIdle
    /\ HrvIdle

RoiNext ==
    \/ \E detected \in RoiFaceLists, image \in RoiFrames(frame_count + 1) :
          RunFrame(detected, image, NoEstimate)
    \/ \E detected \in RoiFaceLists, image \in RoiFrames(frame_count + 1) :
          StreamFrame(detected, image, NoEstimate)

RoiSpec == RoiInit /\ [][RoiNext]_vars

\* ---------------------------------------------- camera_websocket_endpoint
\* camera_stream.py, lines 223-255.  What the client can send: a text "stop",
\* another text, a binary message, and its disconnection.
Messages == {"stop", "text", "bytes", "disconnect"}

\* A release that leaves the device as it is.
release_skipped(cap) == cap

\* WebSocketHeartRateMonitor.release (lines 213-216); self.cap is an object
\* and is true.
release(cap) == "released"

\* The loop is left for reason: the except clauses print, and the finally
\* clause releases the monitor if there is one.
Leave(e, reason) ==
    [e EXCEPT !.pc = "ended", !.left = reason,
              !.cap = IF e.monitor THEN release(@) ELSE @]

\* The state after `await websocket.accept()` and `monitor = None`.
EndpointInit ==
    /\ ClientIdle
    /\ loop = "stream"
    /\ fps = 1
    /\ frame_gap = 1000
    /\ max_frames = MaxStreamFrames
    /\ MonitorNew
    /\ HrvIdle
    /\ endpoint = [NoEndpoint EXCEPT !.pc = "accepted"]

\* The client sends msg; it waits in the connection until it is received.
ClientSends(msg) ==
    /\ endpoint.pc \in {"accepted", "loop", "sleeping"}
    /\ Len(endpoint.inbox) < MaxInbox
    /\ \A i \in 1..Len(endpoint.inbox) : endpoint.inbox[i] # "disconnect"
    /\ endpoint' = [endpoint EXCEPT !.inbox = Append(@, msg)]
    /\ UNCHANGED <<cascade_vars, sentiment_vars, vitals, camera_vars, clock,
                   frame_count, dropped, monitor_fields, hrv_vars>>

\* monitor = WebSocketHeartRateMonitor(); monitor.is_running = True (lines
\* 229-230).  When the constructor raises, monitor stays None, whether or
\* not cv2.VideoCapture(0) had opened the device.
EndpointCreate ==
    /\ endpoint.pc = "accepted"
    /\ \/ endpoint' = [endpoint EXCEPT !.pc = "loop", !.monitor = TRUE,
                                        !.cap = "open"]
       \/ \E held \in {"none", "open"} :
             endpoint' = Leave([endpoint EXCEPT !.cap = held], "exception")
    /\ UNCHANGED <<cascade_vars, sentiment_vars, vitals, camera_vars, clock,
                   frame_count, dropped, monitor_fields, hrv_vars>>

\* An iteration of the loop up to `await asyncio.sleep(0.033)` (lines
\* 232-237): a frame is processed and its data sent, which ends with sent;
\* when cap.read() gives no frame, get_frame_data returns None and nothing
\* is sent.
EndpointFrame(detected, image, est, sent) ==
    /\ endpoint.pc = "loop"
    /\ \/ /\ get_frame_data(detected, image, est)
          /\ endpoint' = IF sent = "ok" THEN [endpoint EXCEPT !.pc = "sleeping"]
                         ELSE IF sent = "WebSocketDisconnect"
                         THEN Leave(endpoint, "disconnect")
                         ELSE Leave(endpoint, "exception")
       \/ /\ frame_count >= max_frames
          /\ endpoint' = [endpoint EXCEPT !.pc = "sleeping"]
          /\ UNCHANGED <<clock, frame_count, dropped, monitor_fields>>
    /\ UNCHANGED <<cascade_vars, sentiment_vars, vitals, camera_vars, hrv_vars>>

\* The rest of the iteration (lines 239-246): receive_text is awaited for a
\* millisecond.  It times out without a message, returns a text, raises
\* KeyError for a binary message and WebSocketDisconnect for a disconnection.
EndpointReceive ==
    /\ endpoint.pc = "sleeping"
    /\ endpoint' =
          IF endpoint.inbox = <<>> THEN [endpoint EXCEPT !.pc = "loop"]
          ELSE LET msg == Head(endpoint.inbox)
                   received == [endpoint EXCEPT !.inbox = Tail(@)]
               IN IF msg = "stop" THEN Leave(received, "stop")
                  ELSE IF msg = "text" THEN [received EXCEPT !.pc = "loop"]
                  ELSE IF msg = "disconnect" THEN Leave(received, "disconnect")
                  ELSE Leave(received, "exception")
    /\ UNCHANGED <<cascade_vars, sentiment_vars, vitals, camera_vars, clock,
                   frame_count, dropped, monitor_fields, hrv_vars>>

\* What send_json ends with.
SendOutcomes == {"ok", "WebSocketDisconnect", "Exception"}

EndpointStep ==
    \/ EndpointCreate
    \/ \E detected \in {<<>>, <<OneFace>>}, sent \in SendOutcomes :
          EndpointFrame(detected, UniformFrame(frame_count + 1), NoEstimate, sent)
    \/ EndpointReceive

EndpointNext ==
    \/ EndpointStep
    \/ \E msg \in Messages : ClientSends(msg)

\* The event loop resumes the coroutine after each of its awaits.
EndpointSpec == EndpointInit /\ [][EndpointNext]_vars /\ WF_vars(EndpointStep)

\* ================================================================ claims
\* The suspension point of an invocation awaiting provider q.
AwaitOf(q) == IF q = GEMINI_FLASH THEN "await_gemini" ELSE "await_groq"

\* The credentials / client of remote provider q are present.
Configured(q) == IF q = GEMINI_FLASH THEN gemini_client ELSE GROQ_API_KEY

\* Position of a tier in the cascade.
TierRank(tier) ==
    CASE tier = GEMINI_FLASH -> 1
      [] tier = GROQ -> 2
      [] tier = LOCAL_SENTIMENT -> 3
      [] tier = HARDCODED -> 4

\* In this step invocation p issues a call to provider q.
Issues(p, q) == pc[p] # AwaitOf(q) /\ pc'[p] = AwaitOf(q)

\* In this step the call of invocation p to provider q ends.
Ends(p, q) == pc[p] = AwaitOf(q) /\ pc'[p] # AwaitOf(q)

\* The result the call of p that ends in this step ended with.
EndResult(p) == trace'[p][Len(trace[p])].outcome

\* C1: generate never raises to its caller and returns exactly one
\* LLMResponse: no invocation is ever left by an exception, a finished
\* invocation has returned one response, an unfinished one none.
C1_NeverRaisesOneResponse ==
    \A p \in procs :
        /\ pc[p] # "raised"
        /\ pc[p] = "done" => Len(resp[p]) = 1
        /\ pc[p] # "done" => Len(resp[p]) = 0

\* C1 witness: both remote tiers were called and raised, and the invocation
\* has returned its response.
C1_Witness ==
    \E p \in procs :
        /\ pc[p] = "done"
        /\ Len(resp[p]) = 1
        /\ Len(trace[p]) >= 3
        /\ trace[p][1].tier = GEMINI_FLASH /\ trace[p][1].outcome = "Exception"
        /\ trace[p][2].tier = GROQ /\ trace[p][2].outcome = "Exception"

\* C2: within one invocation the tiers are attempted strictly in the order
\* gemini -> groq -> local sentiment -> static, each at most once, and the
\* tier that produced the returned response is the last one attempted.
C2_TiersInOrder ==
    \A p \in procs :
        LET t == trace[p] IN
        /\ \A i, j \in 1..Len(t) : i < j => TierRank(t[i].tier) < TierRank(t[j].tier)
        /\ \A i \in 1..Len(t) :
              t[i].outcome \in {"text", "distressed", "returned"} => i = Len(t)
        /\ \A i \in 1..Len(t) :
              t[i].tier = HARDCODED =>
                  i > 1 /\ t[i-1].tier = LOCAL_SENTIMENT /\ t[i-1].outcome = "calm"
        /\ pc[p] = "done" =>
              /\ Len(t) >= 1
              /\ resp[p][1].provider = t[Len(t)].tier
              /\ resp[p][1].provider \in RemoteProviders =>
                    \A i \in 1..Len(t) : t[i].tier \notin {LOCAL_SENTIMENT, HARDCODED}

\* C2 witness: an invocation that went through all four tiers.
C2_Witness ==
    \E p \in procs :
        /\ pc[p] = "done"
        /\ Len(trace[p]) = 4
        /\ resp[p][1].provider = HARDCODED

\* C3: a call is issued to a remote provider only when its credentials are
\* present and its breaker allows the request; in particular none is issued
\* while the breaker is open and at most reset_timeout seconds have passed
\* since its last recorded failure.
C3_CallsOnlyWhenAllowed ==
    [][\A p \in procs, q \in RemoteProviders :
          Issues(p, q) =>
              /\ Configured(q)
              /\ should_allow_request(circuit_breakers[q], now)
              /\ ~(circuit_breakers[q].is_open
                   /\ now - circuit_breakers[q].last_failure <= 30)]_vars

\* C3 witness: an invocation was answered by the local tiers without a call
\* to gemini, which is configured but whose breaker is open and within its
\* reset timeout.
C3_Witness ==
    \E p \in procs :
        /\ pc[p] = "done"
        /\ gemini_client
        /\ circuit_breakers[GEMINI_FLASH].is_open
        /\ now - circuit_breakers[GEMINI_FLASH].last_failure <= 30
        /\ trace[p][1].tier # GEMINI_FLASH

\* C4: a breaker is open exactly when three or more failures were recorded
\* since the last success, and an open breaker refuses requests until
\* strictly more than 30 s after its last failure (still refused at 30 s).
C4_OpensAtThreeRefusesThirtySeconds ==
    \A q \in RemoteProviders :
        LET b == circuit_breakers[q] IN
        /\ b.failures >= 3 => b.is_open
        /\ b.failures < 3 => ~b.is_open /\ should_allow_request(b, now)
        /\ b.is_open =>
              /\ b.last_failure # None
              /\ now - b.last_failure <= 30 => ~should_allow_request(b, now)
              /\ now - b.last_failure > 30 => should_allow_request(b, now)

\* C4 witness: a breaker with three failures, exactly 30 s after the last.
C4_Witness ==
    \E q \in RemoteProviders :
        /\ circuit_breakers[q].failures = 3
        /\ circuit_breakers[q].is_open
        /\ now - circuit_breakers[q].last_failure = 30
        /\ ~should_allow_request(circuit_breakers[q], now)

\* C5: in every reachable state is_open implies failures >= 3 and
\* failures >= 0, and right after a record_success (a call that ended with a
\* non-empty reply) the breaker is closed with failures = 0.
C5_BreakerInvariant ==
    /\ [](\A q \in RemoteProviders :
             /\ circuit_breakers[q].is_open => circuit_breakers[q].failures >= 3
             /\ circuit_breakers[q].failures >= 0)
    /\ [][\A p \in procs, q \in RemoteProviders :
             (Ends(p, q) /\ Truthy(EndResult(p))) =>
                 /\ ~circuit_breakers'[q].is_open
                 /\ circuit_breakers'[q].failures = 0]_vars

\* C5 witness: a success was recorded on a breaker that had been open (its
\* call was admitted half-open), leaving it closed with no failures.
C5_Witness ==
    \E p \in procs, q \in RemoteProviders :
        /\ pc[p] = "done"
        /\ resp[p][1].provider = q
        /\ trace[p][Len(trace[p])].half_open
        /\ ~circuit_breakers[q].is_open
        /\ circuit_breakers[q].failures = 0

\* C6: at most one call is admitted by an open breaker (a half-open trial)
\* before the next record_failure or record_success on it.
C6_OneTrialPerHalfOpenPeriod ==
    \A q \in RemoteProviders : half_open_calls[q] <= 1

\* C7: the result of a half-open trial is applied like any other: a success
\* closes the breaker with failures = 0; a failure adds one to failures,
\* leaves the breaker open and sets last_failure to the current time, and
\* requests are refused for the 30 s that follow that failure.
C7_HalfOpenTrialResult ==
    /\ [][\A p \in procs, q \in RemoteProviders :
             (Ends(p, q) /\ trace[p][Len(trace[p])].half_open) =>
                 /\ Truthy(EndResult(p)) =>
                       /\ circuit_breakers'[q].failures = 0
                       /\ ~circuit_breakers'[q].is_open
                 /\ Raised(EndResult(p)) =>
                       /\ circuit_breakers'[q].failures = circuit_breakers[q].failures + 1
                       /\ circuit_breakers'[q].failures > 3
                       /\ circuit_breakers'[q].is_open
                       /\ circuit_breakers'[q].last_failure = now
                       /\ ~should_allow_request(circuit_breakers'[q], now)]_vars
    /\ [](\A q \in RemoteProviders :
             (circuit_breakers[q].failures > 3
                /\ now - circuit_breakers[q].last_failure <= 30)
             => ~should_allow_request(circuit_breakers[q], now))

\* C7 witness: a half-open trial has failed (a fourth failure, recorded
\* after the reset timeout of the third) and exactly 30 s have passed since.
C7_Witness ==
    \E q \in RemoteProviders :
        /\ circuit_breakers[q].failures = 4
        /\ circuit_breakers[q].is_open
        /\ circuit_breakers[q].last_failure > 30
        /\ now - circuit_breakers[q].last_failure = 30
        /\ ~should_allow_request(circuit_breakers[q], now)

\* C8: every attempted remote call that ends with a timeout, an exception
\* or a non-200 response is recorded on that provider's breaker (failures
\* incremented, last_failure set) and no error reaches the caller.
C8_TransientFailuresRecorded ==
    [][\A p \in procs, q \in RemoteProviders :
          (Ends(p, q) /\ EndResult(p) \in
               {"TimeoutError", "TimeoutException", "Exception", "non200"}) =>
              /\ circuit_breakers'[q].failures = circuit_breakers[q].failures + 1
              /\ circuit_breakers'[q].last_failure = now
              /\ pc'[p] # "raised"]_vars

C10_ExhaustionIsDegradedSuccess ==
    \A p \in procs :
        pc[p] = "done" =>
            /\ resp[p][1].success
            /\ (\A i \in 1..Len(trace[p]) : trace[p][i].outcome # "text") =>
                  /\ resp[p][1].fallback_used
                  /\ resp[p][1].provider \in {LOCAL_SENTIMENT, HARDCODED}

\* C10 witness: gemini is refused by its open breaker, groq is not
\* configured, and the static tier has answered.
C10_Witness ==
    \E p \in procs :
        /\ pc[p] = "done"
        /\ gemini_client /\ circuit_breakers[GEMINI_FLASH].is_open
        /\ ~GROQ_API_KEY
        /\ trace[p][1].tier = LOCAL_SENTIMENT
        /\ resp[p][1].provider = HARDCODED
        /\ resp[p][1].success /\ resp[p][1].fallback_used

\* The keys of a metadata dict.
MetaKeys(metadata) == {kv[1] : kv \in metadata}

\* The value stored under key k of a metadata dict.
MetaGet(metadata, k) == (CHOOSE kv \in metadata : kv[1] = k)[2]

\* No remote tier produced the reply of invocation p: each was skipped, or
\* was called and failed.
RemoteTiersFailed(p) ==
    \A i \in 1..Len(trace[p]) : trace[p][i].outcome # "text"

\* C11: in every returned response fallback_used is false exactly when the
\* provider is gemini_flash, and a response with fallback_used carries its
\* fallback_reason: gemini_unavailable from groq, all_llm_unavailable from
\* the local sentiment and static tiers.
C11_FallbackFlagAndReason ==
    \A p \in procs :
        pc[p] = "done" =>
            LET r == resp[p][1] IN
            /\ ~r.fallback_used <=> r.provider = GEMINI_FLASH
            /\ r.fallback_used => r.fallback_reason # "None"
            /\ r.provider = GROQ => r.fallback_reason = "gemini_unavailable"
            /\ r.provider \in {LOCAL_SENTIMENT, HARDCODED} =>
                  r.fallback_reason = "all_llm_unavailable"

\* C11 witness: gemini failed and groq produced the response.
C11_Witness ==
    \E p \in procs :
        /\ pc[p] = "done"
        /\ Len(trace[p]) = 2
        /\ trace[p][1].tier = GEMINI_FLASH /\ trace[p][1].outcome = "Exception"
        /\ resp[p][1].provider = GROQ
        /\ resp[p][1].fallback_used
        /\ resp[p][1].fallback_reason = "gemini_unavailable"

\* C12: when no remote tier produced the reply, a prompt with at least two
\* distress indicators is answered by the local sentiment tier with
\* fallback_used and should_alert = TRUE in the metadata, whatever compound
\* score the scorer gives it and also without the scorer.
C12_TwoIndicatorsAlert ==
    \A p \in procs :
        (pc[p] = "done" /\ RemoteTiersFailed(p) /\ prompt[p].distress_count >= 2) =>
            /\ resp[p][1].provider = LOCAL_SENTIMENT
            /\ resp[p][1].fallback_used
            /\ "should_alert" \in MetaKeys(resp[p][1].metadata)
            /\ MetaGet(resp[p][1].metadata, "should_alert") = {TRUE}

\* C13: when no remote tier produced the reply and the local classifier
\* finds no distress in the prompt, the response is the static one:
\* provider hardcoded, the fixed neutral message, fallback_used, and no
\* should_alert entry in the metadata.
C13_NeutralFallsToStatic ==
    \A p \in procs :
        (pc[p] = "done" /\ RemoteTiersFailed(p)
           /\ ~_analyze_sentiment(prompt[p], vader_analyzer).is_distressed) =>
            /\ resp[p][1].provider = HARDCODED
            /\ resp[p][1].text = "HARDCODED_NEUTRAL_FALLBACK"
            /\ resp[p][1].fallback_used
            /\ "should_alert" \notin MetaKeys(resp[p][1].metadata)

\* C13 witness: both remote tiers were called and raised, the prompt has no
\* indicator and a neutral score, and the static response was returned.
C13_Witness ==
    \E p \in procs :
        /\ pc[p] = "done"
        /\ Len(trace[p]) = 4
        /\ trace[p][1].outcome = "Exception" /\ trace[p][2].outcome = "Exception"
        /\ prompt[p].distress_count = 0 /\ prompt[p].compound = 0
        /\ resp[p][1].provider = HARDCODED

\* C14: the classifier maps the compound score c and the lexicon result L
\* of a text so: c <= -0.3 negative and distressed; c >= 0.3 positive and
\* not distressed; otherwise neutral and distressed iff L; without the
\* scorer distressed iff L; L holds iff the text has at least 2 indicators,
\* or at least 1 indicator and at least 2 '!'/'?' marks.
C14_ClassifierMapping ==
    analysis # NoAnalysis =>
        LET c == text_in.compound
            L == \/ text_in.distress_count >= 2
                 \/ text_in.distress_count >= 1 /\ text_in.urgency_marks >= 2
        IN /\ (vader_analyzer /\ c <= -3) =>
                 analysis.sentiment = "negative" /\ analysis.is_distressed
           /\ (vader_analyzer /\ c >= 3) =>
                 analysis.sentiment = "positive" /\ ~analysis.is_distressed
           /\ (vader_analyzer /\ c > -3 /\ c < 3) =>
                 analysis.sentiment = "neutral" /\ (analysis.is_distressed <=> L)
           /\ ~vader_analyzer => (analysis.is_distressed <=> L)

\* C14 witness: a text without indicators scored exactly -0.3 was analysed
\* with the scorer and found negative and distressed.
C14_Witness ==
    /\ analysis # NoAnalysis
    /\ vader_analyzer
    /\ text_in.compound = -3
    /\ text_in.distress_count = 0
    /\ analysis.is_distressed

\* C15: generate_with_vitals replaces the text by a heart-rate message
\* exactly when the cascade ended at the static tier; the message is the low
\* one below 60 BPM, the normal one from 60 to 100, the elevated one above
\* 100 up to 120 and the high one above 120; only the high one carries the
\* should_alert_clinician flag; a response of another tier keeps its text.
C15_VitalFallbackBands ==
    \A p \in procs :
        pc[p] = "returned" =>
            LET r == resp[p][1]
                tier == trace[p][Len(trace[p])].tier
                hr == IF vitals.has_heart_rate THEN vitals.heart_rate ELSE 75
            IN /\ r.provider = tier
               /\ tier = HARDCODED <=> "vital_fallback" \in MetaKeys(r.metadata)
               /\ tier \in RemoteProviders => r.text = "llm_reply"
               /\ tier = LOCAL_SENTIMENT => r.text = "HARDCODED_EMERGENCY_CONTACT"
               /\ tier = HARDCODED =>
                     /\ hr < 60 => r.text = "VITAL_LOW"
                     /\ (60 <= hr /\ hr <= 100) => r.text = "VITAL_NORMAL"
                     /\ (100 < hr /\ hr <= 120) => r.text = "VITAL_ELEVATED"
                     /\ hr > 120 => r.text = "VITAL_HIGH"
                     /\ \A f \in MetaGet(r.metadata, "vital_fallback") :
                           /\ f.message = r.text
                           /\ "should_alert_clinician" \in DOMAIN f <=> hr > 120

\* C15 witness: the cascade ended at the static tier with a heart rate of
\* exactly 100 BPM and the normal message was returned.
C15_Witness ==
    \E p \in procs :
        /\ pc[p] = "returned"
        /\ vitals.has_heart_rate /\ vitals.heart_rate = 100
        /\ resp[p][1].provider = HARDCODED
        /\ resp[p][1].text = "VITAL_NORMAL"

\* Capture time spanned by the samples of a time buffer, in milliseconds.
Span(tb) == IF Len(tb) = 0 THEN 0 ELSE tb[Len(tb)] - tb[1]

\* C16: whenever calculate_vitals is called on a buffer whose timestamps span
\* less than 5 seconds, whatever the actual sampling rate, it returns
\* (None, None) and leaves hr_history as it was.
C16_ShortSpanReturnsNull ==
    [][(epochs' = epochs + 1 /\ Span(time_buffer') < MIN_SECONDS * 1000)
          => (vitals_result' = NoResult /\ hr_history' = hr_history)]_vars

\* v is the median of the non-empty sequence s: fewer than half of the
\* elements lie on either side of it, or it is halfway between the two
\* middle elements of an even number.
IsMedian(v, s) ==
    LET n == Len(s)
        below == {i \in 1..n : s[i] < v}
        above == {i \in 1..n : s[i] > v}
    IN \/ /\ \E i \in 1..n : s[i] = v
          /\ 2 * Cardinality(below) < n
          /\ 2 * Cardinality(above) < n
       \/ /\ 2 * Cardinality(below) = n
          /\ 2 * Cardinality(above) = n
          /\ \E i \in below, j \in above :
                /\ \A k \in below : s[k] <= s[i]
                /\ \A k \in above : s[k] >= s[j]
                /\ 2 * v = s[i] + s[j]

\* C17: after an epoch with a valid fused estimate the reported heart rate is
\* the median of the last 5 entries of hr_history (of all of them when there
\* are 3 or 4) once it holds 3, and the raw estimate just appended otherwise;
\* hr_history never holds more than 10 entries; the raw estimates 70, 72,
\* 150, 71, 69 report 71.
C17_SmoothedMedian ==
    /\ Len(hr_history) <= 10
    /\ vitals_result.hr # None =>
          /\ hr_history # <<>>
          /\ IF Len(hr_history) >= 3
             THEN IsMedian(vitals_result.hr,
                           SubSeq(hr_history,
                                  IF Len(hr_history) > 5 THEN Len(hr_history) - 4 ELSE 1,
                                  Len(hr_history)))
             ELSE vitals_result.hr = hr_history[Len(hr_history)]
    /\ hr_history = <<7000, 7200, 15000, 7100, 6900>> => vitals_result.hr = 7100

\* The history is full, its oldest entries were evicted, and the reported
\* heart rate is not the raw estimate of the last epoch.
C17_Witness ==
    /\ loop = "stream"
    /\ Len(hr_history) = 10
    /\ frame_count >= min_samples(fps) + 10
    /\ vitals_result.hr # None
    /\ vitals_result.hr # hr_history[Len(hr_history)]

\* The R-R intervals of a peak train sampled at fs millihertz, in milliseconds.
Intervals(peaks, fs) ==
    [i \in 1..(Len(peaks) - 1) |-> ((peaks[i + 1] - peaks[i]) * 1000 * 1000) \div fs]

\* At least 3 intervals, all equal and within [300, 2000] ms.
FixedInterval(peaks, fs) ==
    /\ Len(peaks) >= 4
    /\ \A i \in 1..(Len(peaks) - 1) :
          /\ Intervals(peaks, fs)[i] = Intervals(peaks, fs)[1]
          /\ 300 <= Intervals(peaks, fs)[i]
          /\ Intervals(peaks, fs)[i] <= 2000

\* C18: for a peak train with a fixed R-R interval within [300, 2000] ms and
\* at least 3 intervals, calculate_hrv_from_peaks yields an RMSSD of 0 (below
\* one millisecond).
C18_FixedIntervalRmssdZero ==
    (rmssd_out.returned /\ FixedInterval(peaks_in, fs_in)) => rmssd_out.rmssd = 0

\* C19: the signal buffer never holds more than fps * 15 samples; a frame
\* that appends to a full buffer drops exactly its oldest sample; the samples
\* and their timestamps stay in the order of capture; and the time buffer
\* always has the length of the signal buffer.
C19_BufferBoundedOrdered ==
    [][/\ Len(signal_buffer') <= fps * 15
       /\ Len(time_buffer') = Len(signal_buffer')
       /\ \A i \in 1..(Len(signal_buffer') - 1) :
             /\ signal_buffer'[i] < signal_buffer'[i + 1]
             /\ time_buffer'[i] <= time_buffer'[i + 1]
       /\ (dropped' = dropped /\ Len(signal_buffer) = fps * 15) =>
             /\ signal_buffer' = Append(Tail(signal_buffer), frame_count')
             /\ time_buffer' = Append(Tail(time_buffer), clock')
       /\ (dropped' = dropped /\ Len(signal_buffer) < fps * 15) =>
             /\ signal_buffer' = Append(signal_buffer, frame_count')
             /\ time_buffer' = Append(time_buffer, clock')
       /\ dropped' # dropped =>
             /\ signal_buffer' = signal_buffer
             /\ time_buffer' = time_buffer]_vars

\* A frame was appended to a full buffer, after a frame that appended nothing.
C19_Witness ==
    /\ Len(signal_buffer) = fps * 15
    /\ signal_buffer[1] > 2
    /\ signal_buffer[Len(signal_buffer)] = frame_count
    /\ dropped > 0

\* Manhattan distance between the top-left corners of two rectangles.
Manhattan(a, b) ==
    (IF a[1] > b[1] THEN a[1] - b[1] ELSE b[1] - a[1])
    + (IF a[2] > b[2] THEN a[2] - b[2] ELSE b[2] - a[2])

\* C20: in a frame with candidates, when the previous frame left a rectangle
\* the tracker selects a candidate whose top-left corner is nearest to it in
\* Manhattan distance, whatever the areas; when it left none the tracker
\* selects a candidate of the largest area.  The selected rectangle becomes
\* the previous one of the next frame.
C20_TrackerSelection ==
    [][Len(faces') > 0 =>
          /\ \E i \in 1..Len(faces') : face' = faces'[i]
          /\ last_face' = face'
          /\ IF last_face # <<>>
             THEN \A i \in 1..Len(faces') :
                     Manhattan(face', last_face) <= Manhattan(faces'[i], last_face)
             ELSE \A i \in 1..Len(faces') :
                     face'[3] * face'[4] >= faces'[i][3] * faces'[i][4]]_vars

\* Two candidates after a frame with a face: the nearer one was selected and
\* the other one is larger.
C20_Witness ==
    /\ frame_count >= 2
    /\ Len(faces) = 2
    /\ face = faces[1]
    /\ face[3] * face[4] < faces[2][3] * faces[2][4]
    /\ face # faces[2]

\* C21: whenever calculate_vitals returns no heart rate for the epoch of a
\* frame, that frame shows the calibrating state and no heart rate, in the
\* overlay and in the data get_frame_data returns, also after an earlier
\* epoch gave a heart rate.
C21_NullEstimateShowsCalibrating ==
    [][(epochs' = epochs + 1 /\ vitals_result'.hr = None) =>
          /\ overlay'.status = "CALIBRATING"
          /\ overlay'.heart_rate = None
          /\ loop = "stream" => frame_data'.heart_rate = None]_vars

\* An estimate, in hundredths of a BPM, strictly inside (45, 160) BPM.
InBand(hr) == hr # -1 /\ 4500 < hr /\ hr < 16000

\* The estimates of an estimation that lie in the band.
Survivors(est) == {hr \in {est.hr_fft, est.hr_peaks} : InBand(hr)}

\* C22: when the estimators have run on the buffer, only their estimates
\* strictly inside (45, 160) BPM count; without one the epoch returns
\* (None, None) and hr_history keeps its entries; otherwise the raw estimate
\* appended to hr_history is the one survivor, or the mean of the two.
C22_FusionKeepsPlausible ==
    [][(epochs' = epochs + 1 /\ Len(signal_buffer') >= fps * 5) =>
          IF Survivors(estimate') = {}
          THEN vitals_result' = [hr |-> -1, hrv |-> -1] /\ hr_history' = hr_history
          ELSE /\ vitals_result'.hr # -1
               /\ Len(hr_history') = Len(hr_history) + 1
               /\ \A i \in 1..Len(hr_history) : hr_history'[i] = hr_history[i]
               /\ LET raw == hr_history'[Len(hr_history')]
                  IN IF InBand(estimate'.hr_fft) /\ InBand(estimate'.hr_peaks)
                     THEN 2 * raw = estimate'.hr_fft + estimate'.hr_peaks
                     ELSE raw \in Survivors(estimate')]_vars

\* Both estimators gave a plausible value, 46 and 73 BPM, and their mean was
\* appended after an epoch without a plausible value.
C22_Witness ==
    /\ estimate.hr_fft = 4600
    /\ estimate.hr_peaks = 7300
    /\ hr_history = <<5950>>
    /\ epochs > fps * 5

\* The signals of the regions of a frame that gave one.
GivenSignals(read) ==
    LET given == {i \in 1..Len(read) : read[i].signal # -1}
    IN [i \in given |-> read[i].signal]

RECURSIVE Total(_, _)
\* The sum of given[i] over the indices i of D.
Total(given, D) ==
    IF D = {} THEN 0
    ELSE LET i == CHOOSE j \in D : TRUE
         IN given[i] + Total(given, D \ {i})

\* C23: in every frame, a region of the selected face gets no value from
\* extract_ppg_signal exactly when it has no area (the frame is not empty),
\* and a value is read from a slice inside the frame with positive width and
\* height; the frame appends to the signal buffer the mean of the values
\* given (to the whole level below), with its timestamp, and appends nothing to either buffer when no
\* region gave a value or no face was detected.
C23_RegionsAndAppend ==
    [][frame_count' = frame_count + 1 =>
          /\ \A i \in 1..Len(rois_read') :
                LET roi == get_face_rois(face')[i]
                    got == rois_read'[i]
                IN /\ (got.signal = -1) <=> (roi[3] <= 0 \/ roi[4] <= 0)
                   /\ got.signal # -1 =>
                         /\ got.region[1] >= 0 /\ got.region[2] >= 0
                         /\ got.region[3] > 0 /\ got.region[4] > 0
                         /\ got.region[1] + got.region[3] <= frame'.width
                         /\ got.region[2] + got.region[4] <= frame'.height
          /\ LET given == GivenSignals(rois_read')
             IN IF Len(faces') = 0 \/ DOMAIN given = {}
                THEN signal_buffer' = signal_buffer /\ time_buffer' = time_buffer
                ELSE /\ Len(signal_buffer') = Len(signal_buffer) + 1
                     /\ SubSeq(signal_buffer', 1, Len(signal_buffer)) = signal_buffer
                     /\ LET last == signal_buffer'[Len(signal_buffer')]
                            n == Cardinality(DOMAIN given)
                        IN /\ n * last <= Total(given, DOMAIN given)
                           /\ Total(given, DOMAIN given) < n * (last + 1)
                     /\ time_buffer' = Append(time_buffer, clock')]_vars

\* The second frame reads three different values from the regions of a face
\* across the middle of the frame and appends their mean, the first frame
\* having appended nothing.
C23_Witness ==
    /\ frame_count = 2
    /\ Len(rois_read) = 3
    /\ rois_read[1].signal = 210
    /\ rois_read[2].signal = 140
    /\ rois_read[3].signal = 240
    /\ signal_buffer = <<196>>

\* C24: in the local run loop and in the streaming loop, a frame invokes
\* calculate_vitals only when its number is a multiple of 15.
C24_VitalsEveryNthFrame ==
    [][epochs' # epochs => frame_count' % VITALS_EVERY = 0]_vars

\* C26: a frame with no detection leaves last_face empty, a frame with a
\* detection leaves the selected rectangle, one of the detected, in last_face,
\* and the first detection after a frame with none is a rectangle of the
\* largest area.
C26_LostFaceResetsTracker ==
    [][frame_count' = frame_count + 1 =>
          /\ Len(faces') = 0 => last_face' = <<>> /\ face' = <<>>
          /\ Len(faces') > 0 =>
                /\ \E i \in 1..Len(faces') : face' = faces'[i]
                /\ last_face' = face'
          /\ Len(faces') > 0 /\ Len(faces) = 0 =>
                \A i \in 1..Len(faces') :
                   face'[3] * face'[4] >= faces'[i][3] * faces'[i][4]]_vars

\* The third frame selects the larger of two rectangles, at the other corner
\* than the smaller, the second frame having had no detection after a first
\* frame with one.
C26_Witness ==
    /\ frame_count = 3
    /\ signal_buffer = <<1, 3>>
    /\ faces = <<(<<0, 0, 100, 100>>), (<<0, 40, 150, 150>>)>>
    /\ face = <<0, 40, 150, 150>>
    /\ last_face = face

\* C30: for every vitals map (heart_rate a number, absent, or None) a call
\* of generate_with_vitals never raises, and once it has ended it has
\* returned exactly one response.
C30_VitalsNeverRaises ==
    \A p \in procs :
        /\ pc[p] # "raised"
        /\ pc[p] = "returned" => Len(resp[p]) = 1

\* C27: of the invocations that share the client, at most one at a time is
\* awaiting a call that an open breaker admitted as a trial.
C27_OneConcurrentTrial ==
    \A q \in RemoteProviders :
        Cardinality({p \in procs :
                       /\ pc[p] = AwaitOf(q)
                       /\ trace[p][Len(trace[p])].half_open}) <= 1

\* C28: from the record_failure that opens a breaker, no call to its provider
\* is issued until strictly more than 30 s after the most recent recorded
\* failure, whatever the calls admitted before the opening end with.
C28_NoCallWhileOpenPeriod ==
    [][\A p \in procs, q \in RemoteProviders :
          (pc[p] # AwaitOf(q) /\ pc'[p] = AwaitOf(q) /\ tripped[q]) =>
              now - circuit_breakers[q].last_failure > 30]_vars

\* C29: when the breaker of a configured provider is open, the provider has
\* come back (it answers every call with a non-empty text), and the clock
\* can still pass the reset timeout after the last failure and generate can
\* still be invoked within the bounds of the model, the breaker becomes
\* closed with failures = 0; and a closed breaker with failures = 0 of a
\* provider that has come back stays so.
C29_BreakerRecovers ==
    /\ \A q \in RemoteProviders :
          (/\ Configured(q)
           /\ responds[q]
           /\ circuit_breakers[q].is_open
           /\ circuit_breakers[q].failures < MaxFailures
           /\ circuit_breakers[q].last_failure + reset_timeout + TickStep <= MaxTime)
             ~> (~circuit_breakers[q].is_open /\ circuit_breakers[q].failures = 0)
    /\ [][\A q \in RemoteProviders :
             (/\ responds[q]
              /\ ~circuit_breakers[q].is_open
              /\ circuit_breakers[q].failures = 0) =>
                 /\ ~circuit_breakers'[q].is_open
                 /\ circuit_breakers'[q].failures = 0]_vars

\* The trial call admitted by the open breaker of a provider that has come
\* back was answered: the breaker is closed with no failures.
C29_Witness ==
    \E q \in RemoteProviders :
        /\ Configured(q)
        /\ responds[q]
        /\ pc[1] = "done"
        /\ resp[1][1].provider = q
        /\ trace[1][Len(trace[1])].half_open
        /\ circuit_breakers[q].last_failure # None
        /\ ~circuit_breakers[q].is_open
        /\ circuit_breakers[q].failures = 0

\* C25: a "stop" received by the endpoint ends the loop there, before
\* another frame is read; once a "stop" or a disconnection waits in the
\* connection the loop is eventually left; and however the loop is left
\* (stop, disconnection, an exception, the constructor raising), the capture
\* device is released exactly when the monitor had been created, and not
\* before the loop is left.
C25_StopAndRelease ==
    /\ [][(/\ endpoint.pc = "sleeping"
           /\ endpoint.inbox # <<>>
           /\ Head(endpoint.inbox) = "stop"
           /\ endpoint'.pc # "sleeping") =>
              /\ endpoint'.pc = "ended"
              /\ endpoint'.left = "stop"
              /\ frame_count' = frame_count]_vars
    /\ []((endpoint.pc = "ended") =>
             ((endpoint.cap = "released") <=> endpoint.monitor))
    /\ []((endpoint.pc # "ended") => (endpoint.cap # "released"))
    /\ (\E i \in 1..Len(endpoint.inbox) :
            endpoint.inbox[i] \in {"stop", "disconnect"})
          ~> (endpoint.pc = "ended")

\* The loop was left by a "stop" after two frames and the device of the
\* monitor was released.
C25_Witness ==
    /\ endpoint.pc = "ended"
    /\ endpoint.left = "stop"
    /\ endpoint.monitor
    /\ endpoint.cap = "released"
    /\ frame_count = 2

====
